---- MODULE Spec2Model ----
(***************************************************************************)
(* A model of pyxcsg, the scene-graph builder for xcsg documents.          *)
(*                                                                         *)
(* The heap of Python objects is the sequence `nodes': a node's identity   *)
(* is its index, a child list is a sequence of indices (references).       *)
(* Matrices are glm's column-major mat4x4: mm[c] is column c, mm[4] the    *)
(* translation column.  Entries are integers: rotation angles are whole    *)
(* quarter turns and mirror normals are axis-aligned, so that cos, sin     *)
(* and normalize are exact.                                                *)
(***************************************************************************)
EXTENDS Integers, Sequences, FiniteSets, TLC

VARIABLES
    nodes,   \* the heap: nodes[i] is the Obj with identity i
    bound,   \* identities whose __call__ has returned (clones of them included)
    origin,  \* origin[i]: the call that created nodes[i] (a constructor or a transform)
    last,    \* the last operation: what was called, on what, and how it ended
    doc,     \* the element tree the last to_xml returned (<<>>: none)
    pc,      \* the statement of the example script to run next (0: not running it)
    file,    \* the destination file of save: whether it exists, and its text
    passes   \* the number of to_xml calls made so far (by to_xml or by save)

vars == <<nodes, origin, bound, last, doc, pc, file, passes>>

(***************************************************************************)
(* Bounds of the model.                                                    *)
(***************************************************************************)
MaxNodes == 4        \* heap size of the free builder (Spec)
MaxOperands == 3     \* operands of one bind in the free builder
MaxChain == 3        \* transform calls in the transform chain (SpecTransform)
MaxLeaves == 9       \* leaf operands of the balanced union (SpecBalance)
MaxParts == 5        \* leaf shapes of a serialized scene (SpecSerialize)
MaxPasses == 2       \* to_xml calls on a serialized scene (SpecSerialize)

(***************************************************************************)
(* common.py, glm: vectors and matrices.                                   *)
(***************************************************************************)
X_AXIS == <<1, 0, 0>>
Y_AXIS == <<0, 1, 0>>
Z_AXIS == <<0, 0, 1>>

IDENTITY == << <<1, 0, 0, 0>>, <<0, 1, 0, 0>>, <<0, 0, 1, 0>>, <<0, 0, 0, 1>> >>

Vec3Of4(c) == <<c[1], c[2], c[3]>>

Vec4(v3, w) == <<v3[1], v3[2], v3[3], w>>

Dot3(a, b) == a[1] * b[1] + a[2] * b[2] + a[3] * b[3]

\* glm: a * b, column c of the product is a applied to column c of b.
MulVec(a, x) ==
    LET e(r) == a[1][r] * x[1] + a[2][r] * x[2] + a[3][r] * x[3] + a[4][r] * x[4]
    IN  <<e(1), e(2), e(3), e(4)>>

MatMul(a, b) == <<MulVec(a, b[1]), MulVec(a, b[2]), MulVec(a, b[3]), MulVec(a, b[4])>>

\* cos and sin of q quarter turns.
Cos4(q) == CASE q % 4 = 0 -> 1 [] q % 4 = 1 -> 0 [] q % 4 = 2 -> -1 [] OTHER -> 0

Sin4(q) == CASE q % 4 = 0 -> 0 [] q % 4 = 1 -> 1 [] q % 4 = 2 -> 0 [] OTHER -> -1

\* glm.rotate(mat4x4(), ang, axis) for a unit axis: the rotation matrix.
RotationMatrix(q, axis) ==
    LET c == Cos4(q)
        s == Sin4(q)
        t == <<(1 - c) * axis[1], (1 - c) * axis[2], (1 - c) * axis[3]>>
        r0 == <<c + t[1] * axis[1], t[1] * axis[2] + s * axis[3], t[1] * axis[3] - s * axis[2], 0>>
        r1 == <<t[2] * axis[1] - s * axis[3], c + t[2] * axis[2], t[2] * axis[3] + s * axis[1], 0>>
        r2 == <<t[3] * axis[1] + s * axis[2], t[3] * axis[2] - s * axis[1], c + t[3] * axis[3], 0>>
    IN  MatMul(IDENTITY, <<r0, r1, r2, <<0, 0, 0, 1>> >>)

\* glm.scale(m, v): the axis columns of m scaled, the translation column kept.
Vec4Scale(c, k) == <<c[1] * k, c[2] * k, c[3] * k, c[4] * k>>

GlmScale(m, v) == <<Vec4Scale(m[1], v[1]), Vec4Scale(m[2], v[2]), Vec4Scale(m[3], v[3]), m[4]>>

(***************************************************************************)
(* Vector-like arguments: a form (the Python type) and its components.     *)
(***************************************************************************)
VecLike(form, c) == [form |-> form, c |-> c]

\* list(v) + [fill for _ in range(3 - len(v))], for len(v) <= 3.
Pad3(c, fill) ==
    <<IF Len(c) >= 1 THEN c[1] ELSE fill,
      IF Len(c) >= 2 THEN c[2] ELSE fill,
      IF Len(c) >= 3 THEN c[3] ELSE fill>>

\* to_vec3: short lists, tuples, vec1 and vec2 are padded with 0; glm.vec3(v)
\* of a longer vector keeps its first three components.
to_vec3(v) ==
    IF v.form \in {"list", "tuple", "vec1", "vec2"}
    THEN IF Len(v.c) < 3 THEN Pad3(v.c, 0) ELSE v.c
    ELSE IF v.form # "vec3" THEN Pad3(v.c, 0) ELSE v.c

\* to_vec4: [ok |-> FALSE] is the `assert False' a glm.vec1 reaches.
to_vec4(v) ==
    IF v.form = "vec4" THEN [ok |-> TRUE, v |-> v.c]
    ELSE IF v.form \in {"list", "tuple", "vec3", "vec2"}
         THEN IF Len(v.c) < 4
              THEN [ok |-> TRUE, v |-> Vec4(to_vec3(v), 0)]
              ELSE [ok |-> TRUE, v |-> v.c]
         ELSE [ok |-> FALSE, v |-> <<0, 0, 0, 0>>]

(***************************************************************************)
(* impl.py: child validators.                                              *)
(***************************************************************************)
ChildValidator(child_type, has_min, min_cnt, has_max, max_cnt) ==
    [is_none |-> FALSE, child_type |-> child_type,
     has_min |-> has_min, min_cnt |-> min_cnt,
     has_max |-> has_max, max_cnt |-> max_cnt]

NoValidator ==
    [is_none |-> TRUE, child_type |-> "Obj",
     has_min |-> FALSE, min_cnt |-> 0, has_max |-> FALSE, max_cnt |-> 0]

OneChild(child_type) == ChildValidator(child_type, TRUE, 1, TRUE, 1)

TwoChildren(child_type) == ChildValidator(child_type, TRUE, 2, TRUE, 2)

MoreChildren(child_type) == ChildValidator(child_type, TRUE, 1, FALSE, 0)

(***************************************************************************)
(* api.py: the classes.  base is Obj2D or Obj3D, flattener tells a         *)
(* FlattenerOp2D/3D subclass, attrs the keyword attributes the model       *)
(* constructs the class with (t: the Python type of the value).            *)
(***************************************************************************)
Attr(k, v) == [k |-> k, t |-> "int", v |-> v, s |-> ""]

BoolAttr(k, v) == [k |-> k, t |-> "bool", v |-> IF v THEN 1 ELSE 0, s |-> ""]

\* A str value, and a float value given in hundredths.
StrAttr(k, s) == [k |-> k, t |-> "str", v |-> 0, s |-> s]

FloatAttr(k, h) == [k |-> k, t |-> "float", v |-> h, s |-> ""]

ClassDef(node_name, base, flattener, validator, attrs) ==
    [node_name |-> node_name, base |-> base, flattener |-> flattener,
     child_validator |-> validator, attrs |-> attrs]

Class(cls) ==
    CASE cls = "Circle" -> ClassDef("circle", "Obj2D", FALSE, NoValidator, <<Attr("r", 17)>>)
      [] cls = "Square" ->
            ClassDef("square", "Obj2D", FALSE, NoValidator,
                     <<Attr("size", 45), BoolAttr("center", FALSE)>>)
      [] cls = "Union2D" -> ClassDef("union2d", "Obj2D", TRUE, MoreChildren("Obj2D"), <<>>)
      [] cls = "Diff2D" -> ClassDef("difference2d", "Obj2D", FALSE, MoreChildren("Obj2D"), <<>>)
      [] cls = "Intersection2D" ->
            ClassDef("intersection2d", "Obj2D", FALSE, MoreChildren("Obj2D"), <<>>)
      [] cls = "Fill2D" -> ClassDef("fill2d", "Obj2D", FALSE, OneChild("Obj2D"), <<>>)
      [] cls = "Minkowski2D" ->
            ClassDef("minkowski2d", "Obj2D", FALSE, TwoChildren("Obj2D"), <<>>)
      [] cls = "Projection2D" ->
            ClassDef("projection2d", "Obj2D", FALSE, OneChild("Obj3D"), <<>>)
      [] cls = "Cube" ->
            ClassDef("cube", "Obj3D", FALSE, NoValidator,
                     <<Attr("size", 45), BoolAttr("center", TRUE)>>)
      [] cls = "Sphere" -> ClassDef("sphere", "Obj3D", FALSE, NoValidator, <<Attr("r", 30)>>)
      [] cls = "Cylinder" ->
            ClassDef("cylinder", "Obj3D", FALSE, NoValidator,
                     <<Attr("r", 17), Attr("h", 50), BoolAttr("center", TRUE)>>)
      [] cls = "LinearExtrude" ->
            ClassDef("linear_extrude", "Obj3D", FALSE, OneChild("Obj2D"), <<Attr("dz", 1)>>)
      [] cls = "TransformExtrude" ->
            ClassDef("transform_extrude", "Obj3D", FALSE, TwoChildren("Obj2D"), <<>>)
      [] cls = "Union3D" -> ClassDef("union3d", "Obj3D", TRUE, MoreChildren("Obj3D"), <<>>)
      [] cls = "Diff3D" -> ClassDef("difference3d", "Obj3D", FALSE, MoreChildren("Obj3D"), <<>>)
      [] cls = "Intersection3D" ->
            ClassDef("intersection3d", "Obj3D", FALSE, MoreChildren("Obj3D"), <<>>)
      [] OTHER -> ClassDef("minkowski3d", "Obj3D", FALSE, MoreChildren("Obj3D"), <<>>)

Leaves == {"Circle", "Square", "Cube", "Sphere", "Cylinder"}

Unions == {"Union2D", "Union3D"}

(***************************************************************************)
(* impl.py: Obj.                                                           *)
(***************************************************************************)
\* Obj.__init__ (and FlattenerOp.__init__): no children, the identity matrix.
NewObj(cls, flat) ==
    [cls |-> cls,
     node_name |-> Class(cls).node_name,
     attrs |-> Class(cls).attrs,
     objs |-> <<>>,
     model_matrix |-> IDENTITY,
     flatten |-> IF Class(cls).flattener THEN flat ELSE FALSE]

\* isinstance(o, child_type) for child_type Obj2D or Obj3D.
IsInstance(heap, o, child_type) == Class(heap[o].cls).base = child_type

\* Mutant of Validate: the upper limit is not checked.
ValidateNoMax(v, heap, objs) ==
    LET cnt == Len(objs)
    IN  /\ v.has_min => cnt >= v.min_cnt
        /\ \A i \in 1..cnt : IsInstance(heap, objs[i], v.child_type)

\* Mutant of Validate: only the first operand's type is checked.
ValidateFirstOnly(v, heap, objs) ==
    LET cnt == Len(objs)
    IN  /\ v.has_min => cnt >= v.min_cnt
        /\ v.has_max => cnt <= v.max_cnt
        /\ cnt > 0 => IsInstance(heap, objs[1], v.child_type)

\* ChildValidator.validate: TRUE when no assertion fails.
Validate(v, heap, objs) ==
    LET cnt == Len(objs)
    IN  /\ v.has_min => cnt >= v.min_cnt
        /\ v.has_max => cnt <= v.max_cnt
        /\ \A i \in 1..cnt : IsInstance(heap, objs[i], v.child_type)

\* Mutant of Mergeable: the transforms are not compared.
MergeableAnyTransform(heap, parent_obj, o) == heap[o].cls = heap[parent_obj].cls

\* flatten's test of one operand.
Mergeable(heap, parent_obj, o) ==
    /\ heap[o].cls = heap[parent_obj].cls
    /\ heap[parent_obj].model_matrix = heap[o].model_matrix

RECURSIVE FlattenFrom(_, _, _, _)
FlattenFrom(heap, parent_obj, objs, i) ==
    IF i > Len(objs) THEN <<>>
    ELSE (IF Mergeable(heap, parent_obj, objs[i])
          THEN heap[objs[i]].objs
          ELSE <<objs[i]>>) \o FlattenFrom(heap, parent_obj, objs, i + 1)

\* Mutant of flatten: nothing is spliced.
flattenNothing(heap, parent_obj, objs) == objs

flatten(heap, parent_obj, objs) == FlattenFrom(heap, parent_obj, objs, 1)

\* Obj.__call__ and FlattenerOp2D/3D.__call__ on node t: [ok, heap].
Bind(heap, t, objs) ==
    LET c == Class(heap[t].cls)
        v == c.child_validator
    IN  IF c.flattener
        THEN IF Validate(v, heap, objs)
             THEN [ok |-> TRUE,
                   heap |-> [heap EXCEPT ![t].objs =
                                IF heap[t].flatten THEN flatten(heap, t, objs) ELSE objs]]
             ELSE [ok |-> FALSE, heap |-> heap]
        ELSE IF ~v.is_none /\ Validate(v, heap, objs)
             THEN [ok |-> TRUE, heap |-> [heap EXCEPT ![t].objs = objs]]
             ELSE [ok |-> FALSE, heap |-> heap]

\* Mutant of Copy: the clone is left without the child list.
CopyNoObjs(heap, n) == [heap[n] EXCEPT !.objs = <<>>]

\* Obj.copy: a new object with the same fields and the same child references.
Copy(heap, n) == heap[n]

\* A newly created object gets the next identity.
Alloc(heap, obj) == Append(heap, obj)

(***************************************************************************)
(* impl.py: the + and - operators.  [ok, heap]; the new node is the last   *)
(* of heap when ok.                                                        *)
(***************************************************************************)
UnionClassOf(heap, a) == IF Class(heap[a].cls).base = "Obj2D" THEN "Union2D" ELSE "Union3D"

DiffClassOf(heap, a) == IF Class(heap[a].cls).base = "Obj2D" THEN "Diff2D" ELSE "Diff3D"

\* Mutant of add: the union is constructed with flatten=False.
addUnflattened(heap, a, b) ==
    LET h == Alloc(heap, NewObj(UnionClassOf(heap, a), FALSE))
        r == Bind(h, Len(h), <<a, b>>)
    IN  IF r.ok THEN r ELSE [ok |-> FALSE, heap |-> heap]

\* Obj2D.__add__ / Obj3D.__add__: Union2D()(self, o) / Union3D()(self, o).
add(heap, a, b) ==
    LET h == Alloc(heap, NewObj(UnionClassOf(heap, a), TRUE))
        r == Bind(h, Len(h), <<a, b>>)
    IN  IF r.ok THEN r ELSE [ok |-> FALSE, heap |-> heap]

\* Obj2D.__sub__ / Obj3D.__sub__: Diff2D()(self, o) / Diff3D()(self, o).
sub(heap, a, b) ==
    LET h == Alloc(heap, NewObj(DiffClassOf(heap, a), TRUE))
        r == Bind(h, Len(h), <<a, b>>)
    IN  IF r.ok THEN r ELSE [ok |-> FALSE, heap |-> heap]

(***************************************************************************)
(* api.py: the transform operators.  [ok, heap]; the clone is the last of  *)
(* heap when ok.                                                           *)
(***************************************************************************)
Vec4Add(a, b) == <<a[1] + b[1], a[2] + b[2], a[3] + b[3], a[4] + b[4]>>

translate(heap, v, obj) ==
    LET clone == Copy(heap, obj)
        v4 == to_vec4(v)
        l == Vec4Add(clone.model_matrix[4], v4.v)
    IN  IF v4.ok
        THEN [ok |-> TRUE,
              heap |-> Alloc(heap, [clone EXCEPT !.model_matrix[4] = l])]
        ELSE [ok |-> FALSE, heap |-> heap]

rotate(heap, ang, axis, obj) ==
    LET clone == Copy(heap, obj)
        rm == RotationMatrix(ang, axis)
    IN  [ok |-> TRUE,
         heap |-> Alloc(heap, [clone EXCEPT !.model_matrix = MatMul(rm, clone.model_matrix)])]

scale(heap, v, obj) ==
    LET clone == Copy(heap, obj)
        v1 == IF v.form \in {"list", "tuple"} /\ Len(v.c) < 3
              THEN VecLike("list", Pad3(v.c, 1))
              ELSE v
    IN  [ok |-> TRUE,
         heap |-> Alloc(heap,
                        [clone EXCEPT !.model_matrix = GlmScale(clone.model_matrix, to_vec3(v1))])]

\* mirror_vector: v - 2 * dot(normal_unit, v) * normal_unit.
mirror_vector(normal_unit, v) ==
    LET prj_len == Dot3(normal_unit, v)
    IN  <<v[1] - 2 * prj_len * normal_unit[1],
          v[2] - 2 * prj_len * normal_unit[2],
          v[3] - 2 * prj_len * normal_unit[3]>>

\* glm.normalize of an axis-aligned vector: the sign of its one component.
Sign(x) == IF x > 0 THEN 1 ELSE IF x < 0 THEN -1 ELSE 0

Normalize(v) == <<Sign(v[1]), Sign(v[2]), Sign(v[3])>>

mirror(heap, normal, obj) ==
    LET clone == Copy(heap, obj)
        normal_unit == Normalize(to_vec3(normal))
        mm == clone.model_matrix
        m(c) == mirror_vector(normal_unit, Vec3Of4(mm[c]))
    IN  [ok |-> TRUE,
         heap |-> Alloc(heap,
                        [clone EXCEPT !.model_matrix =
                            <<Vec4(m(1), 0), Vec4(m(2), 0), Vec4(m(3), 0), Vec4(m(4), 1)>>])]

(***************************************************************************)
(* impl.py: balancing of unions before serialization.  [ok, heap, ...];    *)
(* the nodes a step constructs are appended to heap in construction order. *)
(***************************************************************************)
\* Mutant of GroupOperands: every group is a pair (no group of three).
GroupOperandsPairsOnly(parts, i) == <<parts[2 * i + 1], parts[2 * i + 2]>>

\* The operands of group i of tree_struct's loop (i counts from 0 as in the
\* code): p0, p1 and, for the last group of an odd list, parts[nidx + 1].
GroupOperands(parts, i) ==
    LET odd == Len(parts) % 2 = 1
        idx == 2 * i
        nidx == idx + 1
    IN  IF odd /\ nidx = Len(parts) - 2
        THEN <<parts[idx + 1], parts[nidx + 1], parts[nidx + 2]>>
        ELSE <<parts[idx + 1], parts[nidx + 1]>>

\* op_cls(flatten=False)(operands...): [ok, heap]; the new node is the last
\* of heap.
NewGroup(heap, op_cls, objs) == Bind(Alloc(heap, NewObj(op_cls, FALSE)), Len(heap) + 1, objs)

\* new_parts.append(part)
Appended(part, rest) == [rest EXCEPT !.parts = <<part>> \o rest.parts]

\* The loop of tree_struct from group i on.
RECURSIVE Groups(_, _, _, _), GroupsAfter(_, _, _, _)
Groups(heap, op_cls, parts, i) ==
    IF i >= Len(parts) \div 2
    THEN [ok |-> TRUE, heap |-> heap, parts |-> <<>>]
    ELSE GroupsAfter(NewGroup(heap, op_cls, GroupOperands(parts, i)), op_cls, parts, i)

\* The loop after the bind of group i returned r.
GroupsAfter(r, op_cls, parts, i) ==
    IF r.ok
    THEN Appended(Len(r.heap), Groups(r.heap, op_cls, parts, i + 1))
    ELSE [ok |-> FALSE, heap |-> r.heap, parts |-> <<>>]

\* Mutant of tree_struct: the first two parts are joined and the union takes
\* their place, one pair at a time (a chain instead of a balanced tree).
RECURSIVE tree_structChain(_, _, _), ChainOf(_, _, _)
tree_structChain(heap, op_cls, parts) ==
    IF Len(parts) <= 3
    THEN [ok |-> TRUE, heap |-> heap, parts |-> parts]
    ELSE ChainOf(NewGroup(heap, op_cls, <<parts[1], parts[2]>>), op_cls,
                 SubSeq(parts, 3, Len(parts)))

ChainOf(r, op_cls, rest) ==
    IF r.ok
    THEN tree_structChain(r.heap, op_cls, <<Len(r.heap)>> \o rest)
    ELSE [ok |-> FALSE, heap |-> r.heap, parts |-> <<>>]

\* Mutant of tree_struct: one call joins the first two parts only.
JoinedFirst(r, rest) ==
    IF r.ok
    THEN [ok |-> TRUE, heap |-> r.heap, parts |-> <<Len(r.heap)>> \o rest]
    ELSE [ok |-> FALSE, heap |-> r.heap, parts |-> <<>>]

tree_structOneJoin(heap, op_cls, parts) ==
    IF Len(parts) <= 3
    THEN [ok |-> TRUE, heap |-> heap, parts |-> parts]
    ELSE JoinedFirst(NewGroup(heap, op_cls, <<parts[1], parts[2]>>),
                     SubSeq(parts, 3, Len(parts)))

\* Mutant of tree_struct: the new parts are returned without recursion.
tree_structOneLevel(heap, op_cls, parts) ==
    IF Len(parts) <= 3
    THEN [ok |-> TRUE, heap |-> heap, parts |-> parts]
    ELSE Groups(heap, op_cls, parts, 0)

RECURSIVE tree_struct(_, _, _), TreeStructOf(_, _)
tree_struct(heap, op_cls, parts) ==
    IF Len(parts) <= 3
    THEN [ok |-> TRUE, heap |-> heap, parts |-> parts]
    ELSE TreeStructOf(Groups(heap, op_cls, parts, 0), op_cls)

\* return tree_struct(op_cls, new_parts, depth + 1), the loop having returned g.
TreeStructOf(g, op_cls) == IF g.ok THEN tree_struct(g.heap, op_cls, g.parts) ELSE g

\* op.objs = r.parts, tree_struct having returned r.
Assigned(r, op) ==
    IF r.ok
    THEN [ok |-> TRUE, heap |-> [r.heap EXCEPT ![op].objs = r.parts]]
    ELSE [ok |-> FALSE, heap |-> r.heap]

\* tree_children: op.objs = tree_struct(type(op), op.objs).
tree_children(heap, op) == Assigned(tree_struct(heap, heap[op].cls, heap[op].objs), op)

\* pre_process: balance a union, then pre-process its (new) children in order.
RECURSIVE pre_process(_, _), PreProcessChildren(_, _), PreProcessEach(_, _), PreProcessRest(_, _)
\* Mutant of pre_process: the children of every combinator are balanced.
pre_processAnyKind(heap, obj) ==
    PreProcessChildren(IF heap[obj].cls \notin Leaves
                       THEN tree_children(heap, obj)
                       ELSE [ok |-> TRUE, heap |-> heap],
                       obj)

pre_process(heap, obj) ==
    PreProcessChildren(IF heap[obj].cls \in Unions
                       THEN tree_children(heap, obj)
                       ELSE [ok |-> TRUE, heap |-> heap],
                       obj)

\* for o in obj.objs: pre_process(o, depth + 1), the balancing having returned r.
PreProcessChildren(r, obj) == IF r.ok THEN PreProcessEach(r.heap, r.heap[obj].objs) ELSE r

PreProcessEach(heap, objs) ==
    IF objs = <<>>
    THEN [ok |-> TRUE, heap |-> heap]
    ELSE PreProcessRest(pre_process(heap, Head(objs)), Tail(objs))

\* The rest of the loop, pre_process of the child before having returned r.
PreProcessRest(r, objs) == IF r.ok THEN PreProcessEach(r.heap, objs) ELSE r

(***************************************************************************)
(* impl.py, api.py: serialization.  An element is [tag, attrs, kids]; an   *)
(* attribute is [k, v] with v the string written.  A float is held in      *)
(* hundredths; a matrix entry m is the float m.0.                          *)
(***************************************************************************)
Digit(d) == <<"0", "1", "2", "3", "4", "5", "6", "7", "8", "9">>[d + 1]

\* str of an int.
RECURSIVE Str(_)
Str(n) ==
    IF n < 0 THEN "-" \o Str(-n)
    ELSE IF n < 10 THEN Digit(n)
    ELSE Str(n \div 10) \o Digit(n % 10)

\* str of a float of at most two decimals, given in hundredths.
FloatStr(h) ==
    IF h < 0 THEN "-" \o Str((-h) \div 100) \o "." \o
                  (IF (-h) % 10 = 0 THEN Digit(((-h) % 100) \div 10)
                   ELSE Digit(((-h) % 100) \div 10) \o Digit((-h) % 10))
    ELSE Str(h \div 100) \o "." \o
         (IF h % 10 = 0 THEN Digit((h % 100) \div 10)
          ELSE Digit((h % 100) \div 10) \o Digit(h % 10))

\* mk_node: bool values become 'true' / 'false', the others str(v).
mk_node(name, attrs) ==
    [tag |-> name,
     attrs |-> [i \in 1..Len(attrs) |->
                  [k |-> attrs[i].k,
                   v |-> CASE attrs[i].t = "bool" -> IF attrs[i].v = 1 THEN "true" ELSE "false"
                           [] attrs[i].t = "int" -> Str(attrs[i].v)
                           [] attrs[i].t = "float" -> FloatStr(attrs[i].v)
                           [] OTHER -> attrs[i].s]],
     kids |-> <<>>]

\* Obj._get_child_nodes: no extra child elements for the classes modelled.
get_child_nodes(heap, o) == <<>>

\* The tmatrix element: one trow per matrix row, c0..c3 from the four columns.
TMatrix(mm) ==
    [mk_node("tmatrix", <<>>) EXCEPT !.kids =
        [r \in 1..4 |->
            mk_node("trow", <<FloatAttr("c0", 100 * mm[1][r]), FloatAttr("c1", 100 * mm[2][r]),
                              FloatAttr("c2", 100 * mm[3][r]), FloatAttr("c3", 100 * mm[4][r])>>)]]

\* Mutant of to_element: the tmatrix is written for every node.
RECURSIVE to_elementAlwaysMatrix(_, _)
to_elementAlwaysMatrix(heap, o) ==
    [mk_node(heap[o].node_name, heap[o].attrs) EXCEPT !.kids =
        <<TMatrix(heap[o].model_matrix)>>
        \o [i \in 1..Len(heap[o].objs) |-> to_elementAlwaysMatrix(heap, heap[o].objs[i])]
        \o get_child_nodes(heap, o)]

\* Obj.to_element.
RECURSIVE to_element(_, _)
to_element(heap, o) ==
    LET e == mk_node(heap[o].node_name, heap[o].attrs)
        mm == heap[o].model_matrix
    IN  [e EXCEPT !.kids =
            (IF mm # IDENTITY THEN <<TMatrix(mm)>> ELSE <<>>)
            \o [i \in 1..Len(heap[o].objs) |-> to_element(heap, heap[o].objs[i])]
            \o get_child_nodes(heap, o)]

\* The default of to_xml's and save's secant_tolerance: 0.01.
SecantTolerance == 1

\* root = mk_node('xcsg', ...); root.append(obj.to_element()), pre_process
\* having returned r.
Document(r, obj, secant_tolerance) ==
    IF r.ok
    THEN [ok |-> TRUE, heap |-> r.heap,
          doc |-> [mk_node("xcsg", <<StrAttr("version", "1.0"),
                                     FloatAttr("secant_tolerance", secant_tolerance)>>)
                      EXCEPT !.kids = <<to_element(r.heap, obj)>>]]
    ELSE [ok |-> FALSE, heap |-> r.heap, doc |-> <<>>]

\* Mutant of to_xml: the root's capability is asserted after pre-processing.
AssertedLast(r, obj, secant_tolerance) ==
    IF ~IsInstance(r.heap, obj, "Obj3D")
    THEN [ok |-> FALSE, heap |-> r.heap, doc |-> <<>>]
    ELSE Document(r, obj, secant_tolerance)

to_xmlAssertLast(heap, obj, secant_tolerance) ==
    AssertedLast(pre_process(heap, obj), obj, secant_tolerance)

\* to_xml: [ok, heap, doc].
to_xml(heap, obj, secant_tolerance) ==
    IF ~IsInstance(heap, obj, "Obj3D")
    THEN [ok |-> FALSE, heap |-> heap, doc |-> <<>>]
    ELSE Document(pre_process(heap, obj), obj, secant_tolerance)

(***************************************************************************)
(* api.py save: the destination file, and the text lxml writes for an      *)
(* element tree (pretty-printed: one element per line, two spaces a level).*)
(***************************************************************************)
NoFile == [exists |-> FALSE, text |-> ""]

\* open(file_path, 'w'), f.write(text), close.
Written(text) == [exists |-> TRUE, text |-> text]

RECURSIVE Spaces(_)
Spaces(n) == IF n = 0 THEN "" ELSE "  " \o Spaces(n - 1)

RECURSIVE AttrText(_)
AttrText(attrs) ==
    IF attrs = <<>> THEN ""
    ELSE " " \o Head(attrs).k \o "=\"" \o Head(attrs).v \o "\"" \o AttrText(Tail(attrs))

\* etree.tostring(e, encoding='utf-8', pretty_print=True).decode()
RECURSIVE tostring(_, _), TextOfEach(_, _)
tostring(e, depth) ==
    Spaces(depth) \o "<" \o e.tag \o AttrText(e.attrs) \o
    (IF e.kids = <<>>
     THEN "/>\n"
     ELSE ">\n" \o TextOfEach(e.kids, depth + 1) \o Spaces(depth) \o "</" \o e.tag \o ">\n")

TextOfEach(kids, depth) ==
    IF kids = <<>> THEN ""
    ELSE tostring(Head(kids), depth) \o TextOfEach(Tail(kids), depth)

(***************************************************************************)
(* The record of the last operation.                                       *)
(***************************************************************************)
Op(op, ok, id, src, objs, v) ==
    [op |-> op, ok |-> ok, id |-> id, src |-> src, objs |-> objs, v |-> v]

NoVec == VecLike("none", <<>>)

\* The creating call of an object: "new" for a constructor, else the transform,
\* the object it cloned and its vector argument.
Origin(op, src, v) == [op |-> op, src |-> src, v |-> v]

Constructed == Origin("new", 0, NoVec)

Transforms == {"translate", "rotate", "scale", "mirror"}

(***************************************************************************)
(* The state after import: no object exists.                               *)
(***************************************************************************)
Init ==
    /\ nodes = <<>>
    /\ origin = <<>>
    /\ bound = {}
    /\ last = Op("init", TRUE, 0, 0, <<>>, NoVec)
    /\ doc = <<>>
    /\ pc = 0
    /\ file = NoFile
    /\ passes = 0

Ids == 1..Len(nodes)

\* The elements of a set of identities, in creation order.
RECURSIVE InOrder(_)
InOrder(S) ==
    IF S = {} THEN <<>>
    ELSE LET m == CHOOSE x \in S : \A y \in S : x <= y
         IN  <<m>> \o InOrder(S \ {m})

\* Operand lists of at most n of the objects older than t, each passed once,
\* in creation order.
EarlierLists(t, n) == {InOrder(S) : S \in {T \in SUBSET (1..(t - 1)) : Cardinality(T) <= n}}

\* A call made by the example script moves the script to its next statement.
Advance == pc' = IF pc = 0 THEN 0 ELSE pc + 1

(***************************************************************************)
(* The operations a caller has.                                            *)
(***************************************************************************)
\* cls(...) or cls(flatten=...): a constructor call.
Construct(cls, flat) ==
    /\ nodes' = Alloc(nodes, NewObj(cls, flat))
    /\ origin' = Append(origin, Constructed)
    /\ last' = Op("new", TRUE, Len(nodes) + 1, 0, <<>>, NoVec)
    /\ UNCHANGED <<bound, doc, file, passes>>
    /\ Advance

\* t(objs...): binding children; a failed assertion leaves the heap as it was.
Call(t, objs) ==
    LET r == Bind(nodes, t, objs)
    IN  /\ nodes' = r.heap
        /\ bound' = IF r.ok THEN bound \cup {t} ELSE bound
        /\ last' = Op("call", r.ok, t, 0, objs, NoVec)
        /\ UNCHANGED <<origin, doc, file, passes>>
        /\ Advance

\* What an operation that returns a new node leaves behind.
Returned(op, r, src, objs, v, isBound) ==
    /\ nodes' = r.heap
    /\ origin' = IF r.ok
                 THEN Append(origin, IF op \in Transforms THEN Origin(op, src, v) ELSE Constructed)
                 ELSE origin
    /\ bound' = IF r.ok /\ isBound THEN bound \cup {Len(r.heap)} ELSE bound
    /\ last' = Op(op, r.ok, IF r.ok THEN Len(r.heap) ELSE 0, src, objs, v)
    /\ UNCHANGED <<doc, file, passes>>
    /\ Advance

\* a + b
Add(a, b) == Returned("add", add(nodes, a, b), 0, <<a, b>>, NoVec, TRUE)

\* a - b
Sub(a, b) == Returned("sub", sub(nodes, a, b), 0, <<a, b>>, NoVec, TRUE)

Translate(v, n) == Returned("translate", translate(nodes, v, n), n, <<>>, v, n \in bound)

Rotate(ang, axis, n) ==
    Returned("rotate", rotate(nodes, ang, axis, n), n, <<>>,
             VecLike("vec3", <<ang>> \o axis), n \in bound)

Scale(v, n) == Returned("scale", scale(nodes, v, n), n, <<>>, v, n \in bound)

Mirror(normal, n) == Returned("mirror", mirror(nodes, normal, n), n, <<>>, normal, n \in bound)

\* What to_xml leaves behind, having returned r to the caller op (to_xml
\* itself, or save): the nodes the balancer constructed are bound, plain
\* constructions; save then opens the file for writing and writes the text of
\* the document.
Serialized(op, r, obj) ==
    /\ nodes' = r.heap
    /\ origin' = origin \o [i \in 1..(Len(r.heap) - Len(nodes)) |-> Constructed]
    /\ bound' = bound \cup ((Len(nodes) + 1)..Len(r.heap))
    /\ last' = Op(op, r.ok, obj, 0, <<>>, NoVec)
    /\ doc' = IF r.ok THEN r.doc ELSE doc
    /\ file' = IF op = "save" /\ r.ok THEN Written(tostring(r.doc, 0)) ELSE file
    /\ passes' = passes + 1
    /\ Advance

\* to_xml(obj)
ToXml(obj) == Serialized("to_xml", to_xml(nodes, obj, SecantTolerance), obj)

\* save('example.xcsg', obj)
Save(obj) == Serialized("save", to_xml(nodes, obj, SecantTolerance), obj)

(***************************************************************************)
(* Spec: the builder of 3D scenes.  A scene starts with a cube; then come  *)
(* constructors, binds in the cls()(a, b) style     (the object bound is   *)
(* the one just constructed, its operands are earlier objects, each passed *)
(* once, in creation order), + and - on any two objects, and translate of  *)
(* a union, on a heap of at most MaxNodes objects.                         *)
(***************************************************************************)
BuildClasses == {"Cube", "Union3D"}

Room == Len(nodes) < MaxNodes

Newest == Len(nodes)

Fresh(t) == t \notin bound /\ last.op = "new" /\ last.id = t

NextBuild ==
    \/ \E cls \in BuildClasses, f \in BOOLEAN :
          /\ Room
          /\ f \/ Class(cls).flattener
          /\ nodes = <<>> => cls = "Cube"
          /\ Construct(cls, f)
    \/ \E objs \in EarlierLists(Newest, MaxOperands) :
          /\ nodes # <<>>
          /\ Fresh(Newest)
          /\ Call(Newest, objs)
    \/ \E a \in Ids, b \in Ids : Room /\ Add(a, b)
    \/ \E a \in Ids, b \in Ids : Room /\ Sub(a, b)
    \/ \E n \in Ids :
          Room /\ nodes[n].cls \in Unions /\ Translate(VecLike("list", <<1>>), n)

Spec == Init /\ [][NextBuild]_vars

(***************************************************************************)
(* Properties of binds (checked under Spec).  In Spec the object bound is  *)
(* never one of its own operands, so an operand's children are the same    *)
(* before and after the bind.                                              *)
(***************************************************************************)
\* The last operation bound a union with flattening enabled (by a call or by +).
FlattenBind ==
    /\ last.ok
    /\ last.op \in {"call", "add"}
    /\ nodes[last.id].cls \in Unions
    /\ nodes[last.id].flatten

\* o is a union of p's kind whose transform equals p's.
SameKindSameTransform(p, o) ==
    /\ nodes[p].cls \in Unions
    /\ nodes[o].cls = nodes[p].cls
    /\ \A c \in 1..4 : \A r \in 1..4 : nodes[o].model_matrix[c][r] = nodes[p].model_matrix[c][r]

\* What operand o contributes to the child list of p.
Part(p, o) == IF SameKindSameTransform(p, o) THEN nodes[o].objs ELSE <<o>>

\* The number of children the operands before position i contribute.
RECURSIVE Before(_, _, _)
Before(p, objs, i) == IF i <= 1 THEN 0 ELSE Before(p, objs, i - 1) + Len(Part(p, objs[i - 1]))

\* C2: binding a union with flattening enabled yields the operand list with every
\* operand that is a same-kind union of the same transform replaced, in place and
\* in order, by its own children, and every other operand kept; union(a, union(b, c))
\* with identical transforms has the children [a, b, c].
C2_FlattenResult ==
    FlattenBind =>
        LET p == last.id
            objs == last.objs
            kids == nodes[p].objs
        IN  /\ Len(kids) = Before(p, objs, Len(objs) + 1)
            /\ \A i \in 1..Len(objs) : \A k \in 1..Len(Part(p, objs[i])) :
                    kids[Before(p, objs, i) + k] = Part(p, objs[i])[k]
            /\ (/\ Len(objs) = 2
                /\ ~SameKindSameTransform(p, objs[1])
                /\ SameKindSameTransform(p, objs[2])
                /\ Len(nodes[objs[2]].objs) = 2)
               => kids = <<objs[1], nodes[objs[2]].objs[1], nodes[objs[2]].objs[2]>>

\* C2 witness: union(a, union(b, c)) was bound, and has three children.
C2_Witness ==
    /\ FlattenBind
    /\ last.op = "call"
    /\ Len(last.objs) = 2
    /\ ~SameKindSameTransform(last.id, last.objs[1])
    /\ SameKindSameTransform(last.id, last.objs[2])
    /\ Len(nodes[last.objs[2]].objs) = 2
    /\ Len(nodes[last.id].objs) = 3

\* The arity policy of a node's class holds of its child count.
ArityHolds(n) ==
    LET v == Class(nodes[n].cls).child_validator
        cnt == Len(nodes[n].objs)
    IN  /\ ~v.is_none
        /\ v.has_min => cnt >= v.min_cnt
        /\ v.has_max => cnt <= v.max_cnt

\* C6: every node that has been bound successfully has a child count that
\* satisfies its arity policy.
C6_BoundArity == \A n \in bound : ArityHolds(n)

\* n is a leaf shape, or a combinator that was bound and has children.
WellFormed(n) ==
    \/ nodes[n].cls \in Leaves
    \/ n \in bound /\ nodes[n].objs # <<>>

SplicedFrom(p, o, c) ==
    /\ SameKindSameTransform(p, o)
    /\ \E k \in 1..Len(nodes[o].objs) : nodes[o].objs[k] = c

C9_ExactlyTheOperands ==
    (/\ last.ok
     /\ last.op \in {"add", "sub"}
     /\ \A i \in 1..Len(last.objs) : WellFormed(last.objs[i]))
    => nodes[last.id].objs = last.objs

\* o is a union with the identity transform, as a newly constructed union has.
FreshlyMergeable(cls, o) ==
    /\ nodes[o].cls = cls
    /\ nodes[o].model_matrix = IDENTITY

OperandPart(cls, o) == IF FreshlyMergeable(cls, o) THEN nodes[o].objs ELSE <<o>>

\* C9, amended: - constructs a difference whose children are exactly the two
\* operands, in order; + constructs a union with flattening enabled, whose
\* children are the two operands in order with every operand that is a union of
\* the same kind with the identity transform replaced by its own children, so
\* that a + b + c is at construction a union with the children [a, b, c].
C9_Operators ==
    /\ (last.ok /\ last.op = "sub") =>
          /\ nodes[last.id].cls \in {"Diff2D", "Diff3D"}
          /\ nodes[last.id].objs = last.objs
    /\ (last.ok /\ last.op = "add") =>
          LET u == nodes[last.id]
          IN  /\ u.cls \in Unions
              /\ u.model_matrix = IDENTITY
              /\ u.objs = OperandPart(u.cls, last.objs[1]) \o OperandPart(u.cls, last.objs[2])

\* C9 witness: (a + b) + c was evaluated and has three children.
C9_Witness ==
    /\ last.ok
    /\ last.op = "add"
    /\ FreshlyMergeable(nodes[last.id].cls, last.objs[1])
    /\ Len(nodes[last.objs[1]].objs) = 2
    /\ nodes[last.objs[2]].cls \notin Unions
    /\ Len(nodes[last.id].objs) = 3

(***************************************************************************)
(* SpecBind: one bind at a time.  Up to MaxOperands leaf shapes of either  *)
(* capability are constructed, then one object of any class, which is      *)
(* called with any list of at most MaxOperands of the shapes; + and - are  *)
(* applied to any two of the shapes.                                       *)
(***************************************************************************)
OperandClasses == {"Circle", "Cube"}

TargetClasses ==
    {"Circle", "Cube", "Union2D", "Union3D", "Diff2D", "Diff3D", "Intersection3D",
     "Fill2D", "Minkowski2D", "Projection2D", "LinearExtrude", "TransformExtrude"}

OnlyShapes == \A i \in Ids : nodes[i].cls \in OperandClasses /\ origin[i].op = "new"

NextBind ==
    \/ \E cls \in OperandClasses :
          /\ Len(nodes) < MaxOperands
          /\ OnlyShapes
          /\ last.op \in {"init", "new"}
          /\ Construct(cls, TRUE)
    \/ \E cls \in TargetClasses :
          /\ Len(nodes) <= MaxOperands
          /\ OnlyShapes
          /\ last.op \in {"init", "new"}
          /\ Construct(cls, TRUE)
    \/ \E objs \in UNION {[1..k -> 1..(Newest - 1)] : k \in 0..MaxOperands} :
          /\ nodes # <<>>
          /\ Fresh(Newest)
          /\ Call(Newest, objs)
    \/ \E a \in Ids, b \in Ids : Len(nodes) <= MaxOperands /\ OnlyShapes /\ Add(a, b)
    \/ \E a \in Ids, b \in Ids : Len(nodes) <= MaxOperands /\ OnlyShapes /\ Sub(a, b)

SpecBind == Init /\ [][NextBind]_vars

(***************************************************************************)
(* Properties of validation (checked under SpecBind).                      *)
(***************************************************************************)
\* The declared arity of a class: none, exactly-one, exactly-two, one-or-more.
Arity(cls) ==
    CASE cls \in Leaves -> "none"
      [] cls \in {"Fill2D", "Projection2D", "LinearExtrude"} -> "exactly-one"
      [] cls \in {"Minkowski2D", "TransformExtrude"} -> "exactly-two"
      [] OTHER -> "one-or-more"

OutsideArity(cls, cnt) ==
    CASE Arity(cls) = "none" -> TRUE
      [] Arity(cls) = "exactly-one" -> cnt # 1
      [] Arity(cls) = "exactly-two" -> cnt # 2
      [] OTHER -> cnt < 1

\* C4: a bind whose number of children is outside the declared arity of the class
\* fails (a leaf shape fails with any children), and binds nothing.
C4_ArityEnforced ==
    (last.op = "call" /\ OutsideArity(nodes[last.id].cls, Len(last.objs))) =>
        /\ ~last.ok
        /\ last.id \notin bound
        /\ nodes[last.id].objs = <<>>

\* C4 witness: an exactly-two combinator was called with three children of the
\* capability it requires, and the call failed.
C4_Witness ==
    /\ last.op = "call"
    /\ ~last.ok
    /\ Arity(nodes[last.id].cls) = "exactly-two"
    /\ Len(last.objs) = 3
    /\ \A i \in 1..3 : nodes[last.objs[i]].cls = "Circle"

\* The capability of a class, and the capability a combinator requires of its
\* children.
Capability(cls) ==
    IF cls \in {"Circle", "Square", "Union2D", "Diff2D", "Intersection2D", "Fill2D",
                "Minkowski2D", "Projection2D"}
    THEN "2D" ELSE "3D"

Requires(cls) ==
    IF cls \in {"Union2D", "Diff2D", "Intersection2D", "Fill2D", "Minkowski2D",
                "LinearExtrude", "TransformExtrude"}
    THEN "2D" ELSE "3D"

\* C5: a bind fails whenever an operand, at any position, has another capability
\* than the combinator requires; a + b and a - b fail on operands of different
\* capabilities.
C5_CapabilityEnforced ==
    /\ (/\ last.op = "call"
        /\ \E i \in 1..Len(last.objs) :
              Capability(nodes[last.objs[i]].cls) # Requires(nodes[last.id].cls))
       => (~last.ok /\ last.id \notin bound)
    /\ (/\ last.op \in {"add", "sub"}
        /\ Capability(nodes[last.objs[1]].cls) # Capability(nodes[last.objs[2]].cls))
       => ~last.ok

\* C5 witness: a combinator whose arity admits the operand list refused it for
\* the capability of its last operand alone.
C5_Witness ==
    /\ last.op = "call"
    /\ ~last.ok
    /\ Len(last.objs) = 3
    /\ ~OutsideArity(nodes[last.id].cls, 3)
    /\ \A i \in 1..2 : Capability(nodes[last.objs[i]].cls) = Requires(nodes[last.id].cls)
    /\ Capability(nodes[last.objs[3]].cls) # Requires(nodes[last.id].cls)

(***************************************************************************)
(* SpecTransform: chains of transform calls.  The scene is a cube and the  *)
(* union cube + cube; then at most MaxChain transform calls follow, each   *)
(* on any object of the heap (a source or a clone).                        *)
(***************************************************************************)
TranslateArgs ==
    {VecLike("list", <<1>>), VecLike("vec3", <<0, 2, 3>>), VecLike("vec1", <<1>>)}

RotateArgs == {<<1, Z_AXIS>>}

ScaleArgs == {VecLike("list", <<2>>), VecLike("vec2", <<2, 3>>)}

MirrorArgs == {VecLike("list", <<0, 1>>)}

ChainRoom == Len(nodes) >= 2 /\ Len(nodes) < 2 + MaxChain

NextTransform ==
    \/ nodes = <<>> /\ Construct("Cube", TRUE)
    \/ Len(nodes) = 1 /\ Add(1, 1)
    \/ \E v \in TranslateArgs, n \in Ids : ChainRoom /\ Translate(v, n)
    \/ \E a \in RotateArgs, n \in Ids : ChainRoom /\ Rotate(a[1], a[2], n)
    \/ \E v \in ScaleArgs, n \in Ids : ChainRoom /\ Scale(v, n)
    \/ \E v \in MirrorArgs, n \in Ids : ChainRoom /\ Mirror(v, n)

SpecTransform == Init /\ [][NextTransform]_vars

(***************************************************************************)
(* Properties of the transform operators (checked under SpecTransform).    *)
(***************************************************************************)
\* The step is a transform call.
TransformStep == last'.op \in Transforms

\* C1: a transform call changes no existing node (transform, attributes and
\* child sequence of every node, the source included, are as before); when it
\* returns, the result is a new node of the source's class and attributes
\* whose child sequence holds the very same child identities as the source's,
\* and no other node appears (children are not duplicated).
C1_TransformFrame ==
    [][TransformStep =>
        /\ \A i \in 1..Len(nodes) : nodes'[i] = nodes[i]
        /\ ~last'.ok => nodes' = nodes
        /\ last'.ok =>
            /\ Len(nodes') = Len(nodes) + 1
            /\ last'.id = Len(nodes')
            /\ last'.id # last'.src
            /\ nodes'[last'.id].objs = nodes[last'.src].objs
            /\ nodes'[last'.id].cls = nodes[last'.src].cls
            /\ nodes'[last'.id].attrs = nodes[last'.src].attrs]_vars

\* A transform has just cloned a node with children that is itself a clone
\* and that was cloned before.
C1_Witness ==
    /\ last.op \in Transforms
    /\ last.ok
    /\ nodes[last.src].objs # <<>>
    /\ nodes[last.id].objs = nodes[last.src].objs
    /\ origin[last.src].op \in Transforms
    /\ \E k \in Ids : k # last.id /\ origin[k].op \in Transforms /\ origin[k].src = last.src

\* The vector v as translate is said to add it: missing components are 0, w = 0.
AsVec4(c) ==
    <<IF Len(c) >= 1 THEN c[1] ELSE 0,
      IF Len(c) >= 2 THEN c[2] ELSE 0,
      IF Len(c) >= 3 THEN c[3] ELSE 0,
      0>>

\* k is translate(v, j).
TranslateOf(k, j) == origin[k].op = "translate" /\ origin[k].src = j

\* C8: translate by a vector of at most three components returns a node whose
\* translation column is the source's plus v (w = 0) and whose axis columns
\* are the source's; so translate(v2, translate(v1, node)) has the node's
\* translation column plus v1 plus v2 and the node's axis columns, whatever
\* transforms the node had before.
C8_TranslateTwice ==
    /\ last.op = "translate" /\ Len(last.v.c) <= 3 => last.ok
    /\ \A k \in Ids : origin[k].op = "translate" =>
          LET j == origin[k].src
          IN  /\ nodes[k].model_matrix[4] =
                    Vec4Add(nodes[j].model_matrix[4], AsVec4(origin[k].v.c))
              /\ \A c \in 1..3 : nodes[k].model_matrix[c] = nodes[j].model_matrix[c]
    /\ \A k \in Ids, j \in Ids, i \in Ids : TranslateOf(k, j) /\ TranslateOf(j, i) =>
          /\ nodes[k].model_matrix[4] =
                Vec4Add(Vec4Add(nodes[i].model_matrix[4], AsVec4(origin[j].v.c)),
                        AsVec4(origin[k].v.c))
          /\ \A c \in 1..3 : nodes[k].model_matrix[c] = nodes[i].model_matrix[c]

\* The scale factor of axis c that scale is said to apply for the vector v:
\* the component of v, or 1 where v has none.
FactorOf(v, c) == IF c <= Len(v.c) THEN v.c[c] ELSE 1

\* C11: scale by a list, tuple or 2-component vector of fewer than three
\* components multiplies axis column c by the c-th component where v has one
\* and by 1 where it has none, and leaves the translation column as it was.
C11_MissingFactorsAreOne ==
    \A k \in Ids :
        /\ origin[k].op = "scale"
        /\ origin[k].v.form \in {"list", "tuple", "vec2"}
        /\ Len(origin[k].v.c) < 3
        => LET j == origin[k].src
           IN  /\ \A c \in 1..3, r \in 1..4 :
                     nodes[k].model_matrix[c][r] =
                        FactorOf(origin[k].v, c) * nodes[j].model_matrix[c][r]
               /\ nodes[k].model_matrix[4] = nodes[j].model_matrix[4]

(***************************************************************************)
(* SpecBalance: one union over cubes, then to_xml.  At most MaxLeaves      *)
(* cubes are constructed, then a Union3D (flattening enabled or not), it   *)
(* is bound to some of the cubes in creation order, and serialized.        *)
(***************************************************************************)
OnlyCubes == \A i \in Ids : nodes[i].cls = "Cube"

NextBalance ==
    \/ OnlyCubes /\ Len(nodes) < MaxLeaves /\ Construct("Cube", TRUE)
    \/ \E f \in BOOLEAN : nodes # <<>> /\ OnlyCubes /\ Construct("Union3D", f)
    \/ /\ nodes # <<>>
       /\ nodes[Newest].cls = "Union3D"
       /\ Fresh(Newest)
       /\ \E objs \in EarlierLists(Newest, MaxLeaves) : Call(Newest, objs)
    \/ last.op = "call" /\ last.ok /\ ToXml(last.id)

SpecBalance == Init /\ [][NextBalance]_vars

(***************************************************************************)
(* Properties of the balancer (checked under SpecBalance).                 *)
(***************************************************************************)
\* The nodes of the tree under o, o included.
RECURSIVE Under(_)
Under(o) == {o} \cup UNION {Under(nodes[o].objs[i]) : i \in 1..Len(nodes[o].objs)}

\* The leaves of the tree under o, left to right.
RECURSIVE LeafSeq(_), LeafSeqOf(_)
LeafSeq(o) == IF nodes[o].cls \in Leaves THEN <<o>> ELSE LeafSeqOf(nodes[o].objs)

LeafSeqOf(objs) == IF objs = <<>> THEN <<>> ELSE LeafSeq(Head(objs)) \o LeafSeqOf(Tail(objs))

\* to_xml has just returned for a union over at least n leaf operands.
Balanced(n) ==
    /\ last.op = "to_xml"
    /\ last.ok
    /\ nodes[last.id].cls \in Unions
    /\ Len(LeafSeq(last.id)) >= n

\* Every union of the tree under the root has 2 or 3 children.
TwoOrThree == \A u \in Under(last.id) : nodes[u].cls \in Unions => Len(nodes[u].objs) \in {2, 3}

\* C3 as claimed: for n >= 1 leaf operands bound into one union and then
\* pre-processed, every union node of the tree, the root included, has
\* exactly 2 or 3 children.
C3_FromOneOperand == Balanced(1) => TwoOrThree

\* C3 as amended: for n >= 2 leaf operands bound into one union and then
\* pre-processed, every union node of the tree, the root included, has
\* exactly 2 or 3 children.
C3_FromTwoOperands == Balanced(2) => TwoOrThree

\* A union over an odd number of at least five leaves has been balanced: the
\* balancer built a union of three and a union of two.
C3_Witness ==
    /\ Balanced(5)
    /\ Len(LeafSeq(last.id)) % 2 = 1
    /\ \E u \in Under(last.id) \ {last.id} : nodes[u].cls \in Unions /\ Len(nodes[u].objs) = 3
    /\ \E u \in Under(last.id) \ {last.id} : nodes[u].cls \in Unions /\ Len(nodes[u].objs) = 2

\* A call has just bound a union to more than three children.
BoundToMany == last.op = "call" /\ last.ok /\ Len(nodes[last.id].objs) > 3

\* The children group i (from 0) of the list p is said to hold: p[2i], p[2i+1]
\* and, in the last group of a list of odd length, the last three.
GroupSaid(p, i) ==
    IF Len(p) % 2 = 1 /\ i = (Len(p) \div 2) - 1
    THEN <<p[Len(p) - 2], p[Len(p) - 1], p[Len(p)]>>
    ELSE <<p[2 * i + 1], p[2 * i + 2]>>

\* One pairing pass over the children of the union just bound yields
\* floor(n/2) new, distinct union nodes with flattening disabled, group i over
\* the children GroupSaid names.
PassGroups ==
    BoundToMany =>
        LET p == nodes[last.id].objs
            g == Groups(nodes, nodes[last.id].cls, p, 0)
        IN  /\ g.ok
            /\ Len(g.parts) = Len(p) \div 2
            /\ \A i \in 1..Len(g.parts) :
                  /\ g.parts[i] = Len(nodes) + i
                  /\ g.heap[g.parts[i]].cls = nodes[last.id].cls
                  /\ ~g.heap[g.parts[i]].flatten
                  /\ g.heap[g.parts[i]].objs = GroupSaid(p, i - 1)
            /\ \A k \in 1..Len(nodes) : g.heap[k] = nodes[k]

\* to_xml of the union just bound to leaves keeps the left-to-right sequence
\* of the leaves under it.
OrderKept ==
    last.op = "call" /\ last.ok /\ last'.op = "to_xml" /\ last'.ok
        => LeafSeq(last.id)' = nodes[last.id].objs

\* C14: one pairing pass over a child list p of length n > 3 yields floor(n/2)
\* new unions built with flattening disabled, group i being (p[2i], p[2i+1])
\* except that the last group of an odd list is the last three children; and
\* the left-to-right sequence of the operands under the balanced union is the
\* original child list.
C14_PairingPass == []PassGroups /\ [][OrderKept]_vars

\* A union of seven leaves has been balanced into two pairs and a group of
\* three, in this order.
C14_Witness ==
    /\ Balanced(7)
    /\ Len(LeafSeq(last.id)) = 7
    /\ Len(nodes[last.id].objs) = 3
    /\ \A i \in 1..2 : Len(nodes[nodes[last.id].objs[i]].objs) = 2
    /\ nodes[nodes[last.id].objs[3]].objs = SubSeq(LeafSeq(last.id), 5, 7)

\* The number of union levels from o down to the leaves under it.
RECURSIVE Depth(_)
Depth(o) ==
    IF nodes[o].objs = <<>> THEN 0
    ELSE LET below == {Depth(nodes[o].objs[i]) : i \in 1..Len(nodes[o].objs)}
         IN  1 + CHOOSE d \in below : \A e \in below : e <= d

\* ceil(log2(n)) for n >= 1.
CeilLog2(n) == CHOOSE k \in 0..n : 2 ^ k >= n /\ (k = 0 \/ 2 ^ (k - 1) < n)

\* C15: for n >= 2 leaf operands bound into one union and balanced, the depth
\* d of the union tree satisfies ceil(log2(n)) - 1 <= d <= ceil(log2(n)); and
\* the pairing recursion terminates: a pass over more than three children
\* returns a strictly shorter list, and to_xml of the bound union returns.
C15_DepthIsLogarithmic ==
    /\ Balanced(2) =>
          LET n == Len(LeafSeq(last.id))
              d == Depth(last.id)
          IN  CeilLog2(n) - 1 <= d /\ d <= CeilLog2(n)
    /\ BoundToMany =>
          LET g == Groups(nodes, nodes[last.id].cls, nodes[last.id].objs, 0)
          IN  g.ok /\ Len(g.parts) < Len(nodes[last.id].objs) /\ Len(g.parts) >= 2
    /\ last.op = "to_xml" => last.ok

\* A union of eight leaves has been balanced to depth three.
C15_Witness ==
    /\ Balanced(8)
    /\ Len(LeafSeq(last.id)) = 8
    /\ Depth(last.id) = 3
    /\ CeilLog2(8) = 3

(***************************************************************************)
(* SpecExample: example.py, statement by statement.  The angles of its two *)
(* rotate calls (in quarter turns; the script has one quarter turn, about  *)
(* X and about Y) and their axes are inputs.                               *)
(*   1  cylinder = Cylinder(r=17, h=50, center=True)                       *)
(*   2..5  shape = Sect3D()(Cube(size=45, center=True), Sphere(r=30))      *)
(*   6..9  cylinder + rotate(.., cylinder) + rotate(.., cylinder)          *)
(*   10  shape -= the sum                                                  *)
(*   11  save('example.xcsg', shape)                                       *)
(***************************************************************************)
Quarters == 0..3

Axes == {X_AXIS, Y_AXIS, Z_AXIS}

\* The interpreter starts the script.
Run ==
    /\ pc = 0
    /\ nodes = <<>>
    /\ pc' = 1
    /\ UNCHANGED <<nodes, origin, bound, last, doc, file, passes>>

NextExample ==
    \/ Run
    \/ pc = 1 /\ Construct("Cylinder", TRUE)
    \/ pc = 2 /\ Construct("Intersection3D", TRUE)
    \/ pc = 3 /\ Construct("Cube", TRUE)
    \/ pc = 4 /\ Construct("Sphere", TRUE)
    \/ pc = 5 /\ Call(2, <<3, 4>>)
    \/ pc = 6 /\ \E q \in Quarters, axis \in Axes : Rotate(q, axis, 1)
    \/ pc = 7 /\ Add(1, 5)
    \/ pc = 8 /\ \E q \in Quarters, axis \in Axes : Rotate(q, axis, 1)
    \/ pc = 9 /\ Add(6, 7)
    \/ pc = 10 /\ Sub(2, 8)
    \/ pc = 11 /\ Save(9)

SpecExample == Init /\ [][NextExample]_vars

(***************************************************************************)
(* Properties of the example's document (checked under SpecExample).       *)
(***************************************************************************)
\* The script has ended.
Saved == pc = 12 /\ last.op = "save" /\ last.ok

\* The rotate calls had the script's own arguments: 90 degrees about X, then
\* 90 degrees about Y.
AsWritten ==
    /\ origin[5] = Origin("rotate", 1, VecLike("vec3", <<1>> \o X_AXIS))
    /\ origin[7] = Origin("rotate", 1, VecLike("vec3", <<1>> \o Y_AXIS))

Tags(e) == [i \in 1..Len(e.kids) |-> e.kids[i].tag]

\* The children of e with the tag given, as positions.
Kids(e, tag) == {i \in 1..Len(e.kids) : e.kids[i].tag = tag}

HasTMatrix(e) == Kids(e, "tmatrix") # {}

\* The root holds one difference3d whose first child is an intersection3d of a
\* cube and a sphere.
DifferenceOfIntersection ==
    /\ doc.tag = "xcsg"
    /\ Cardinality(Kids(doc, "difference3d")) = 1
    /\ Len(doc.kids) = 1
    /\ doc.kids[1].kids[1].tag = "intersection3d"
    /\ Tags(doc.kids[1].kids[1]) = <<"cube", "sphere">>

\* The element e has three cylinder children, of which exactly n carry a tmatrix.
ThreeCylinders(e, n) ==
    /\ Cardinality(Kids(e, "cylinder")) = 3
    /\ Cardinality({i \in Kids(e, "cylinder") : HasTMatrix(e.kids[i])}) = n

\* C10 as claimed: the example serializes to a root with one difference3d
\* whose first child is intersection3d (of cube and sphere) and which has
\* three cylinder children, exactly two of them with a tmatrix.
C10_CylindersOfDifference ==
    Saved /\ AsWritten => DifferenceOfIntersection /\ ThreeCylinders(doc.kids[1], 2)

\* C10 as amended: the example serializes to a root with one difference3d
\* whose two children are an intersection3d (of cube and sphere) and a
\* union3d; the union3d has three cylinder children, exactly two of them
\* with a tmatrix (whatever the rotations, the children are these, and the
\* first cylinder has no tmatrix).
C10_CylindersOfUnion ==
    Saved =>
        /\ DifferenceOfIntersection
        /\ Tags(doc.kids[1]) = <<"intersection3d", "union3d">>
        /\ Tags(doc.kids[1].kids[2]) = <<"cylinder", "cylinder", "cylinder">>
        /\ ~HasTMatrix(doc.kids[1].kids[2].kids[1])
        /\ AsWritten => ThreeCylinders(doc.kids[1].kids[2], 2)

\* The script as written has run to its end and left a document.
C10_Witness ==
    /\ Saved
    /\ AsWritten
    /\ doc # <<>>
    /\ doc.kids[1].tag = "difference3d"
    /\ HasTMatrix(doc.kids[1].kids[2].kids[3])

(***************************************************************************)
(* SpecSerialize: scenes and their serialization.  A scene is at most      *)
(* MaxParts leaf shapes of one class, then one combinator, bound or not to *)
(* some of the shapes, then possibly one difference over the combinator    *)
(* and the first shape, or one translated clone of the combinator, or one  *)
(* linear extrusion of the combinator when it is a bound 2D union.  The    *)
(* root is the node made last; to_xml and save are called on it, at most   *)
(* MaxPasses times in all, at any point of the construction.               *)
(***************************************************************************)
SceneLeaves == {"Cube", "Circle"}

SceneCombinators == {"Union3D", "Union2D", "Intersection3D"}

\* No to_xml call yet: the scene is under construction.
Building == passes = 0

\* The combinator is the node constructed last.
CombinatorIsNewest == nodes # <<>> /\ ~OnlyShapes /\ \A i \in 1..(Len(nodes) - 1) : nodes[i].cls \in Leaves

\* The root serialized: the node made last by the caller.
Root == IF last.op \in {"to_xml", "save"} THEN last.id ELSE Newest

NextSerialize ==
    \/ /\ Building /\ OnlyShapes /\ Len(nodes) < MaxParts
       /\ \E cls \in SceneLeaves : (IF nodes = <<>> THEN TRUE ELSE cls = nodes[1].cls) /\ Construct(cls, TRUE)
    \/ /\ Building /\ OnlyShapes /\ nodes # <<>>
       /\ \E cls \in SceneCombinators, f \in BOOLEAN :
             (f \/ Class(cls).flattener) /\ Construct(cls, f)
    \/ /\ Building /\ CombinatorIsNewest /\ Fresh(Newest)
       /\ \E objs \in EarlierLists(Newest, MaxParts) : Call(Newest, objs)
    \/ /\ Building /\ CombinatorIsNewest
       /\ \E a \in {1, Newest}, b \in {1, Newest} : Sub(a, b)
    \/ /\ Building /\ CombinatorIsNewest
       /\ Translate(VecLike("list", <<1>>), Newest)
    \/ /\ Building /\ CombinatorIsNewest /\ Newest \in bound
       /\ nodes[Newest].cls = "Union2D"
       /\ Construct("LinearExtrude", FALSE)
    \/ /\ Building /\ nodes # <<>> /\ Fresh(Newest)
       /\ nodes[Newest].cls = "LinearExtrude"
       /\ Call(Newest, <<Newest - 1>>)
    \/ nodes # <<>> /\ passes < MaxPasses /\ ToXml(Root)
    \/ nodes # <<>> /\ passes < MaxPasses /\ Save(Root)

SpecSerialize == Init /\ [][NextSerialize]_vars

\* The last operation was a serialization: to_xml, or save.
WasSerialization == last.op \in {"to_xml", "save"}

\* A combinator that was never bound to children.
UnboundCombinator(o) == nodes[o].cls \notin Leaves /\ o \notin bound /\ nodes[o].objs = <<>>

\* C12: to_xml (alone or within save) on a tree whose root or any descendant
\* is a combinator never bound to children does not produce a document.
C12_UnboundNotSerialized ==
    WasSerialization /\ (\E o \in Under(last.id) : UnboundCombinator(o)) => ~last.ok

\* A serialization step: a call of to_xml or save.
SerializationStep == passes' = passes + 1 /\ last'.op \in {"to_xml", "save"}

\* C13: to_xml and save on a root without 3D capability fail and leave the
\* tree as it was (no pre-processing), the document returned before as it
\* was, and the destination file neither opened nor written.
C13_FailsBeforeAnything ==
    [][SerializationStep /\ ~IsInstance(nodes, last'.id, "Obj3D")
          => ~last'.ok /\ nodes' = nodes /\ doc' = doc /\ file' = file]_vars

\* save of a 2D union of four circles has failed: the union still has its
\* four children and there is no file.
C13_Witness ==
    /\ last.op = "save" /\ ~last.ok
    /\ nodes[last.id].cls = "Union2D"
    /\ Len(nodes[last.id].objs) = 4
    /\ ~file.exists

\* Kind, attributes and transform of a node.
Kept(o) ==
    /\ nodes'[o].cls = nodes[o].cls
    /\ nodes'[o].node_name = nodes[o].node_name
    /\ nodes'[o].attrs = nodes[o].attrs
    /\ nodes'[o].model_matrix = nodes[o].model_matrix
    /\ nodes'[o].flatten = nodes[o].flatten

\* C16: a serialization (its pre-processing) keeps every node's kind,
\* attributes and transform, and the child list of every node that is not a
\* union of more than 3 children; every node it creates is a union with the
\* identity transform.
C16_PreProcessFrame ==
    [][SerializationStep =>
          /\ Len(nodes') >= Len(nodes)
          /\ \A o \in 1..Len(nodes) :
                /\ Kept(o)
                /\ (nodes[o].cls \notin Unions \/ Len(nodes[o].objs) <= 3
                       => nodes'[o].objs = nodes[o].objs)
          /\ \A n \in (Len(nodes) + 1)..Len(nodes') :
                /\ nodes'[n].cls \in Unions
                /\ nodes'[n].model_matrix = IDENTITY]_vars

\* The translated clone of a union of four shapes has been serialized: the
\* clone, its transform kept, has two children, both unions with the identity
\* transform, and the union it was cloned from, not under the root, still has
\* its four children.
C16_Witness ==
    /\ WasSerialization /\ last.ok
    /\ origin[last.id].op = "translate"
    /\ nodes[last.id].model_matrix # IDENTITY
    /\ Len(nodes[origin[last.id].src].objs) = 4
    /\ Len(nodes[last.id].objs) = 2
    /\ \A i \in 1..2 :
          /\ nodes[nodes[last.id].objs[i]].cls = "Union3D"
          /\ nodes[nodes[last.id].objs[i]].model_matrix = IDENTITY

\* C17: a serialization that follows a successful serialization of the same
\* root succeeds, changes no node (no child list) and returns the same
\* document, also when a node is under the root by more than one path.
C17_SecondPassChangesNothing ==
    [][WasSerialization /\ last.ok /\ SerializationStep /\ last'.id = last.id
          => last'.ok /\ nodes' = nodes /\ doc' = doc]_vars

\* K - K, with K a union of five shapes, has been serialized twice: K, under
\* the root by two paths, has two children, a union of two and a union of
\* three.
C17_Witness ==
    /\ passes = 2 /\ WasSerialization /\ last.ok
    /\ nodes[last.id].cls = "Diff3D"
    /\ Len(nodes[last.id].objs) = 2
    /\ nodes[last.id].objs[1] = nodes[last.id].objs[2]
    /\ nodes[nodes[last.id].objs[1]].cls = "Union3D"
    /\ Len(LeafSeq(last.id)) = 10
    /\ Len(nodes[nodes[last.id].objs[1]].objs) = 2
    /\ \A i \in 1..2 :
          /\ nodes[nodes[nodes[last.id].objs[1]].objs[i]].cls = "Union3D"
          /\ Len(nodes[nodes[nodes[last.id].objs[1]].objs[i]].objs) = i + 1

====
